---- MODULE Spec2Model ----
(***************************************************************************)
(* The four extraction wrappers of src/scrapers/python_wrappers            *)
(* (crawl4ai_wrapper.py, deepdoctection_wrapper.py,                        *)
(* deepdoctection_wrapper_v2.py, docling_wrapper.py) as one state machine: *)
(* one process invocation runs main() of one wrapper on one argv, with the *)
(* capability flags fixed by the module-level probes, and prints its JSON  *)
(* result.  Backends, the HTTP client and the file system are the          *)
(* environment: every call to them has a nondeterministic outcome.         *)
(* Exceptions are instances of Exception, the class every handler of the   *)
(* wrappers names.                                                         *)
(***************************************************************************)
EXTENDS Integers, Sequences, FiniteSets, TLC

VARIABLES
    wrapper,    \* which wrapper's main() this process runs
    flags,      \* the capability flags set by the module-level probes
    argv,       \* sys.argv[1:] as delivered by the host process
    env,        \* file system / tempdir facts of the environment
    pc,         \* position of main() and of the wrapper method it called
    loc,        \* locals of the wrapper method in progress
    result,     \* the `result` local of main(), once assigned
    exc,        \* the exception travelling to main()'s handler
    stdout,     \* JSON objects printed to the process's stdout, in order
    exitCode,   \* -1 while running, then the process's exit status
    files,      \* paths that exist on disk
    created,    \* paths this invocation created
    invoked,    \* backend calls made, in order
    raised      \* phases of main() in which an exception was raised

vars == <<wrapper, flags, argv, env, pc, loc, result, exc, stdout, exitCode,
          files, created, invoked, raised>>

(***************************************************************************)
(* Bounds of the model.                                                    *)
(***************************************************************************)
MaxPages == 2

\* The most tables, and the most figures, on one page of BuildSpec.
MaxItems == 2

\* How many times NormSpec applies a normalizer to one backend output.
NormRuns == 2

(***************************************************************************)
(* Python strings.                                                         *)
(***************************************************************************)
StartsWith(s, p) == Len(s) >= Len(p) /\ SubSeq(s, 1, Len(p)) = p

EndsWith(s, p) == Len(s) >= Len(p) /\ SubSeq(s, Len(s) - Len(p) + 1, Len(s)) = p

Contains(s, p) ==
    \E i \in 1..(Len(s) + 1) :
        i + Len(p) - 1 <= Len(s) /\ SubSeq(s, i, i + Len(p) - 1) = p

LowerChar(c) ==
    CASE c = "A" -> "a" [] c = "B" -> "b" [] c = "C" -> "c" [] c = "D" -> "d"
      [] c = "E" -> "e" [] c = "F" -> "f" [] c = "G" -> "g" [] c = "H" -> "h"
      [] c = "I" -> "i" [] c = "J" -> "j" [] c = "K" -> "k" [] c = "L" -> "l"
      [] c = "M" -> "m" [] c = "N" -> "n" [] c = "O" -> "o" [] c = "P" -> "p"
      [] c = "Q" -> "q" [] c = "R" -> "r" [] c = "S" -> "s" [] c = "T" -> "t"
      [] c = "U" -> "u" [] c = "V" -> "v" [] c = "W" -> "w" [] c = "X" -> "x"
      [] c = "Y" -> "y" [] c = "Z" -> "z"
      [] OTHER -> c

RECURSIVE Lower(_)
Lower(s) ==
    IF s = "" THEN ""
    ELSE LowerChar(SubSeq(s, 1, 1)) \o Lower(SubSeq(s, 2, Len(s)))

\* A variant of Slice that keeps the whole string.
Slice_Whole(s, n) == s

\* s[:n]
Slice(s, n) == IF Len(s) <= n THEN s ELSE SubSeq(s, 1, n)

\* A text of n characters.
RECURSIVE Fill(_)
Fill(n) ==
    IF n = 0 THEN ""
    ELSE LET half == Fill(n \div 2)
         IN  half \o half \o (IF n % 2 = 1 THEN "x" ELSE "")

(***************************************************************************)
(* Python exceptions: a class and a message, str(e).                       *)
(***************************************************************************)
NoExc == [cls |-> "", msg |-> ""]

Exc(c, m) == [cls |-> c, msg |-> m]

ParentClass(c) ==
    CASE c = "ModuleNotFoundError" -> "ImportError"
      [] c = "JSONDecodeError" -> "ValueError"
      [] c = "FileNotFoundError" -> "OSError"
      [] c = "HTTPError" -> "OSError"
      [] c = "ConnectionError" -> "OSError"
      [] c = "Exception" -> "BaseException"
      [] OTHER -> "Exception"

RECURSIVE IsInstance(_, _)
IsInstance(c, handler) ==
    IF c = handler THEN TRUE
    ELSE IF c = "BaseException" THEN FALSE
    ELSE IsInstance(ParentClass(c), handler)

Caught(e, handlers) == \E h \in handlers : IsInstance(e.cls, h)

\* What a backend call can raise.
BackendErrors ==
    { Exc("RuntimeError", "backend failed"),
      Exc("TimeoutError", ""),
      Exc("ImportError", "No module named 'timm'"),
      Exc("TypeError", "unexpected keyword argument") }

AttributeErr(what) == Exc("AttributeError", what)

(***************************************************************************)
(* Result objects: the dict a wrapper returns and main() prints.  `keys`   *)
(* is the set of top-level keys present; a scalar field whose key is       *)
(* absent holds its zero value.  `nulls` is the set of the keys present    *)
(* whose value is None.                                                    *)
(***************************************************************************)
NoResult ==
    [ success |-> FALSE, keys |-> {}, error |-> "", mock |-> FALSE,
      text |-> "", format |-> "", metaKeys |-> {}, pages |-> 0,
      tables |-> 0, libraries_used |-> <<>>, processing_error |-> "",
      nulls |-> {}, page_records |-> <<>>, serializable |-> TRUE ]

\* {"success": False, "error": msg}
Failure(msg) ==
    [NoResult EXCEPT !.keys = {"success", "error"}, !.error = msg]

\* {"success": False, "error": msg, "traceback": traceback.format_exc()}
FailureTb(msg) ==
    [NoResult EXCEPT !.keys = {"success", "error", "traceback"}, !.error = msg]

ProcessResultFailed_NoCause(e) == FailureTb("Failed to process result")

\* The except clause of _process_result: f"Failed to process result: {str(e)}"
ProcessResultFailed(e) == FailureTb("Failed to process result: " \o e.msg)

(***************************************************************************)
(* JSON values of the configuration: a key that is absent, a null, or a    *)
(* string.  dict.get(key) is Get(v, None); dict.get(key, d) is Get(v, d).  *)
(***************************************************************************)
Absent == "<absent>"

None == "<None>"

Get(v, default) == IF v = Absent THEN default ELSE v

\* Python truthiness of an optional string: `not v`.
Falsy(v) == v = None \/ v = ""

\* options = config.get("options", {}): a dict, or None for a JSON null.
NoOptions == [isDict |-> TRUE, use_deepdoctection |-> FALSE, document_type |-> Absent]

NullOptions == [NoOptions EXCEPT !.isDict = FALSE]

(***************************************************************************)
(* The inputs of the model.                                                *)
(***************************************************************************)
Wrappers == {"crawl4ai", "deepdoctection", "deepdoctection_v2", "docling"}

HttpRefs == {"http://h/a.pdf", "http://h/page", "https://h/IMG.PNG"}

LocalRefs == {"/tmp/in.pdf", "/data/doc.PDF", "/data/scan.png", "/data/notes"}

DocRefs == {Absent, None, ""} \cup HttpRefs \cup LocalRefs

TmpDirs == {"/tmp", "/var/folders/x"}

OptionBags ==
    {NoOptions, NullOptions, [NoOptions EXCEPT !.use_deepdoctection = TRUE]}

\* crawl_config: the plain keys it holds, and the "type" of each strategy
\* object it holds.
NoCrawlConfig ==
    [ plain |-> {}, extraction_strategy |-> Absent,
      chunking_strategy |-> Absent, content_filter |-> Absent ]

NoConfig ==
    [ url |-> Absent, crawler_config |-> {}, crawl_config |-> NoCrawlConfig,
      document_url |-> Absent, document_data |-> Absent, options |-> NoOptions ]

\* argv of the process: no argument, an argument that is not JSON, JSON that
\* is not an object, or a configuration object.
NoArg == [present |-> FALSE, json |-> "", config |-> NoConfig]

BadJson == [present |-> TRUE, json |-> "invalid", config |-> NoConfig]

NonDictJson == [present |-> TRUE, json |-> "nondict", config |-> NoConfig]

ConfigArg(c) == [present |-> TRUE, json |-> "dict", config |-> c]

DocConfigs ==
    { [NoConfig EXCEPT !.document_url = u, !.options = o] :
        u \in DocRefs, o \in OptionBags }

\* The environment matters only where the request touches it: the temp
\* directory for a remote reference, the disk for a local one.
EnvFor(ref) ==
    { [tmpdir |-> t, disk |-> d] :
        t \in (IF ref \in HttpRefs THEN TmpDirs ELSE {"/tmp"}),
        d \in (IF ref \in LocalRefs THEN {{}, {ref}} ELSE {{}}) }

(***************************************************************************)
(* Capability flags, as the module-level probes leave them.                *)
(***************************************************************************)
V2Libraries == <<"deepdoctection", "layoutparser", "easyocr", "pypdf", "pdfplumber">>

V2LibrarySet == {V2Libraries[i] : i \in 1..Len(V2Libraries)}

\* LIBRARIES_STATUS: five independent probes.
V2Flags == [V2LibrarySet -> BOOLEAN]

(***************************************************************************)
(* Locals of the wrapper method in progress.  `attempts` is the log of the *)
(* PDF cascade: each candidate in the order it was reached, with whether   *)
(* it was skipped, returned ("ok") or raised ("failed").                   *)
(***************************************************************************)
\* A variant of Attempt in which the first candidate is taken up again.
Attempt_Again(backend, outcome) == [backend |-> "pdfplumber", outcome |-> outcome]

Attempt(backend, outcome) == [backend |-> backend, outcome |-> outcome]

NoLoc ==
    [ document_url |-> "", path |-> "", options |-> NoOptions,
      data |-> <<>>, fetch |-> "none",
      crawler |-> "none", kwargs |-> {}, attempt |-> 0, cfg |-> NoCrawlConfig, params |-> {},
      aruns |-> 0, raw |-> [success |-> TRUE, attrs |-> {}], error_msg |-> "",
      norm_error |-> NoExc, serializable |-> TRUE, bad |-> {},
      analysis_results |-> <<>>,
      ocr_reader |-> FALSE, layout_model |-> FALSE, analyzer |-> FALSE,
      text |-> "", tables |-> 0, pages |-> 0, metaKeys |-> {},
      attempts |-> <<>>,
      res |-> NoResult ]

(***************************************************************************)
(* Bookkeeping shared by the actions.                                      *)
(***************************************************************************)
\* The module-level flag that guards each backend call; the HTTP clients
\* are imported unconditionally.
Capability(backend) ==
    IF backend \in {"requests", "urllib"} THEN TRUE ELSE flags[backend]

\* The method returns `r` to main(), which holds it in `result`.
Return(r) == result' = r /\ pc' = "print" /\ exc' = exc

\* An exception leaves the wrapper method and travels to main()'s handler.
Propagate(e) == exc' = e /\ pc' = "handler" /\ result' = result

Raise(phase) == raised' = raised \cup {phase}

(***************************************************************************)
(* main(), the same in the four wrappers but for the wrapper it drives.    *)
(***************************************************************************)
WrapperEntry(w) ==
    CASE w = "crawl4ai" -> "crawl"
      [] w = "deepdoctection" -> "dd"
      [] w = "deepdoctection_v2" -> "v2_init"
      [] w = "docling" -> "docling"

\* error_result of main()'s handler.
MainErrorResult(e) == FailureTb(e.msg)

\* if len(sys.argv) < 2: result = {...}
MainNoArg ==
    /\ pc = "main"
    /\ ~argv.present
    /\ result' = Failure("Configuration argument required")
    /\ pc' = "print"
    /\ UNCHANGED <<wrapper, flags, argv, env, loc, exc, stdout, exitCode,
                   files, created, invoked, raised>>

\* config = json.loads(config_json), then the wrapper is constructed.
MainParse ==
    /\ pc = "main"
    /\ argv.present
    /\ IF argv.json = "invalid"
       THEN /\ Propagate(Exc("JSONDecodeError", "Expecting value: line 1 column 1 (char 0)"))
            /\ Raise("parse")
       ELSE /\ pc' = WrapperEntry(wrapper)
            /\ UNCHANGED <<exc, result, raised>>
    /\ UNCHANGED <<wrapper, flags, argv, env, loc, stdout, exitCode,
                   files, created, invoked>>

\* A variant of MainPrint that exits with status 1 on a success=false result.
MainPrint_FailStatus ==
    /\ pc = "print"
    /\ IF result.serializable
       THEN /\ stdout' = Append(stdout, result)
            /\ pc' = "done"
            /\ exitCode' = IF result.success THEN 0 ELSE 1
            /\ UNCHANGED <<exc, raised>>
       ELSE /\ exc' = Exc("TypeError", "Object of type MarkdownGenerationResult is not JSON serializable")
            /\ pc' = "handler"
            /\ Raise("serialize")
            /\ UNCHANGED <<stdout, exitCode>>
    /\ UNCHANGED <<wrapper, flags, argv, env, loc, result, files, created, invoked>>

\* print(json.dumps(result, ...)): json.dumps raises TypeError on a value
\* that is not JSON serializable, before anything is written.
MainPrint ==
    /\ pc = "print"
    /\ IF result.serializable
       THEN /\ stdout' = Append(stdout, result)
            /\ pc' = "done"
            /\ exitCode' = 0
            /\ UNCHANGED <<exc, raised>>
       ELSE /\ exc' = Exc("TypeError", "Object of type MarkdownGenerationResult is not JSON serializable")
            /\ pc' = "handler"
            /\ Raise("serialize")
            /\ UNCHANGED <<stdout, exitCode>>
    /\ UNCHANGED <<wrapper, flags, argv, env, loc, result, files, created, invoked>>

\* A variant of MainHandler that exits without printing error_result.
MainHandler_Silent ==
    /\ pc = "handler"
    /\ pc' = IF Caught(exc, {"Exception"}) THEN "done" ELSE "crashed"
    /\ exitCode' = 1
    /\ UNCHANGED <<wrapper, flags, argv, env, loc, result, exc, stdout, files,
                   created, invoked, raised>>

\* except Exception as e: print(json.dumps(error_result)); sys.exit(1)
MainHandler ==
    /\ pc = "handler"
    /\ IF Caught(exc, {"Exception"})
       THEN /\ stdout' = Append(stdout, MainErrorResult(exc))
            /\ pc' = "done"
       ELSE /\ pc' = "crashed"
            /\ UNCHANGED stdout
    /\ exitCode' = 1
    /\ UNCHANGED <<wrapper, flags, argv, env, loc, result, exc, files, created,
                   invoked, raised>>

(***************************************************************************)
(* deepdoctection_wrapper_v2.py: DocumentAnalyzer.                         *)
(***************************************************************************)
\* tempfile.NamedTemporaryFile(delete=False, suffix=ext).name
TmpName(ext) == env.tmpdir \o "/tmp1a2b3c" \o ext

\* requests.get(url, timeout=...) followed by response.raise_for_status()
FetchErrors ==
    { Exc("ConnectionError", "Max retries exceeded"),
      Exc("HTTPError", "404 Client Error: Not Found") }

\* _download_document: the suffix of the temporary file.
V2DownloadExt(url) ==
    IF Contains(Lower(url), ".pdf") THEN ".pdf"
    ELSE IF \E x \in {".png", ".jpg", ".jpeg"} : Contains(Lower(url), x) THEN ".jpg"
    ELSE ".pdf"

\* _get_document_type
V2GetDocumentType(path) ==
    IF EndsWith(Lower(path), ".pdf") THEN "pdf"
    ELSE IF \E x \in {".png", ".jpg", ".jpeg"} : EndsWith(Lower(path), x) THEN "image"
    ELSE "unknown"

\* "libraries_used": [k for k, v in LIBRARIES_STATUS.items() if v]
V2LibrariesUsed == SelectSeq(V2Libraries, LAMBDA k : flags[k])

\* What one run of a page-by-page extractor does to a document: it reads n
\* pages, each giving the text ptext and ptables tables, and then either
\* returns or raises (n = 0 and raising: the open itself failed).
PageRuns(readable) ==
    IF ~readable
    THEN {[n |-> 0, raises |-> TRUE, ptext |-> "", ptables |-> 0]}
    ELSE {[n |-> 0, raises |-> r, ptext |-> "", ptables |-> 0] : r \in BOOLEAN}
         \cup [n : 1..MaxPages, raises : BOOLEAN, ptext : {"", "hello"}, ptables : {0, 1}]

\* text += f"\n--- Page {i+1} ---\n{page_text}" for the pages 1..n
RECURSIVE PagesText(_, _)
PagesText(n, ptext) ==
    IF n = 0 THEN ""
    ELSE PagesText(n - 1, ptext) \o "\n--- Page " \o ToString(n) \o " ---\n" \o ptext

\* DocumentAnalyzer(): __init__ and _initialize_tools
V2Init ==
    /\ pc = "v2_init"
    /\ \E ocr_ok \in BOOLEAN, lp_ok \in BOOLEAN :
        /\ flags["easyocr"] \/ ocr_ok
        /\ flags["layoutparser"] \/ lp_ok
        /\ loc' = [loc EXCEPT !.ocr_reader = flags["easyocr"] /\ ocr_ok,
                              !.layout_model = flags["layoutparser"] /\ lp_ok]
        /\ invoked' = invoked
                \o (IF flags["easyocr"] THEN <<"easyocr">> ELSE <<>>)
                \o (IF flags["layoutparser"] THEN <<"layoutparser">> ELSE <<>>)
        /\ raised' = IF ocr_ok /\ lp_ok THEN raised ELSE raised \cup {"process"}
    /\ pc' = "v2_analyze"
    /\ UNCHANGED <<wrapper, flags, argv, env, result, exc, stdout, exitCode,
                   files, created>>

\* analyze_document up to the dispatch on the document type, with
\* _download_document and _get_document_type.
V2Analyze ==
    /\ pc = "v2_analyze"
    /\ IF argv.json = "nondict"
       THEN \* config.get(...) outside the try block
            /\ Propagate(AttributeErr("'list' object has no attribute 'get'"))
            /\ Raise("process")
            /\ UNCHANGED <<loc, files, created, invoked>>
       ELSE LET document_url == Get(argv.config.document_url, None)
                options == argv.config.options
            IN  IF Falsy(document_url)
                THEN /\ Return(Failure("document_url is required"))
                     /\ UNCHANGED <<loc, files, created, invoked, raised>>
                ELSE IF ~StartsWith(document_url, "http")
                THEN /\ loc' = [loc EXCEPT !.document_url = document_url,
                                           !.options = options,
                                           !.path = document_url]
                     /\ pc' = IF V2GetDocumentType(document_url) = "pdf" THEN "v2_pdf"
                              ELSE IF V2GetDocumentType(document_url) \in {"png", "jpg", "jpeg"}
                                   THEN "v2_image"
                              ELSE "v2_generic"
                     /\ UNCHANGED <<result, exc, files, created, invoked, raised>>
                ELSE \E fetch \in {NoExc} \cup FetchErrors :
                     /\ invoked' = Append(invoked, "requests")
                     /\ IF fetch # NoExc
                        THEN /\ Return(FailureTb(fetch.msg))
                             /\ Raise("process")
                             /\ loc' = [loc EXCEPT !.fetch = "failed"]
                             /\ UNCHANGED <<files, created>>
                        ELSE LET path == TmpName(V2DownloadExt(document_url))
                             IN  /\ files' = files \cup {path}
                                 /\ created' = created \cup {path}
                                 /\ loc' = [loc EXCEPT !.document_url = document_url,
                                                       !.options = options,
                                                       !.fetch = "ok",
                                                       !.path = path]
                                 /\ pc' = IF V2GetDocumentType(path) = "pdf" THEN "v2_pdf"
                                          ELSE IF V2GetDocumentType(path) \in {"png", "jpg", "jpeg"}
                                               THEN "v2_image"
                                          ELSE "v2_generic"
                                 /\ UNCHANGED <<result, exc, raised>>
    /\ UNCHANGED <<wrapper, flags, argv, env, stdout, exitCode>>

\* _process_pdf: "Try pdfplumber first"
V2Pdfplumber ==
    /\ pc = "v2_pdf"
    /\ IF flags["pdfplumber"]
       THEN \E run \in PageRuns(loc.path \in files) :
            /\ invoked' = Append(invoked, "pdfplumber")
            /\ loc' = [loc EXCEPT
                   !.text = PagesText(run.n, run.ptext),
                   !.tables = run.n * run.ptables,
                   !.pages = run.n,
                   !.metaKeys = IF run.n = 0 /\ run.raises THEN {} ELSE {"page_count"},
                   !.attempts = Append(@, Attempt("pdfplumber",
                                    IF run.raises THEN "failed" ELSE "ok"))]
            /\ raised' = IF run.raises THEN raised \cup {"process"} ELSE raised
       ELSE /\ loc' = [loc EXCEPT !.attempts = Append(@, Attempt("pdfplumber", "skipped"))]
            /\ UNCHANGED <<invoked, raised>>
    /\ pc' = "v2_pypdf"
    /\ UNCHANGED <<wrapper, flags, argv, env, result, exc, stdout, exitCode,
                   files, created>>

\* A variant of V2PypdfWanted that does not consult LIBRARIES_STATUS.
V2PypdfWanted_Unprobed == loc.text = ""

\* if not text and LIBRARIES_STATUS['pypdf']
V2PypdfWanted == loc.text = "" /\ flags["pypdf"]

\* _process_pdf: "Fallback to pypdf for text extraction"
V2Pypdf ==
    /\ pc = "v2_pypdf"
    /\ IF V2PypdfWanted
       THEN \E run \in {r \in PageRuns(loc.path \in files) : r.ptables = 0} :
            /\ invoked' = Append(invoked, "pypdf")
            /\ loc' = [loc EXCEPT
                   !.text = @ \o PagesText(run.n, run.ptext),
                   !.pages = @ + run.n,
                   !.metaKeys = IF run.n = 0 /\ run.raises THEN @ ELSE @ \cup {"page_count"},
                   !.attempts = Append(@, Attempt("pypdf",
                                    IF run.raises THEN "failed" ELSE "ok"))]
            /\ raised' = IF run.raises THEN raised \cup {"process"} ELSE raised
       ELSE /\ loc' = [loc EXCEPT !.attempts = Append(@, Attempt("pypdf", "skipped"))]
            /\ UNCHANGED <<invoked, raised>>
    /\ pc' = "v2_dd"
    /\ UNCHANGED <<wrapper, flags, argv, env, result, exc, stdout, exitCode,
                   files, created>>

\* The dict _process_pdf returns.
V2PdfResult(l) ==
    [NoResult EXCEPT
        !.success = TRUE,
        !.keys = {"success", "document", "metadata", "tables", "pages", "libraries_used"},
        !.text = l.text,
        !.pages = l.pages,
        !.format = "pdf",
        !.metaKeys = l.metaKeys,
        !.tables = l.tables,
        !.libraries_used = V2LibrariesUsed]

\* _process_pdf: "Try DeepDoctection if available and configured", and the
\* return statement.
V2DeepDoctection ==
    /\ pc = "v2_dd"
    /\ IF ~flags["deepdoctection"]
       THEN /\ loc' = [loc EXCEPT !.res = V2PdfResult(loc),
                                  !.attempts = Append(@, Attempt("deepdoctection", "skipped"))]
            /\ pc' = "v2_cleanup"
            /\ UNCHANGED <<result, exc, invoked, raised>>
       ELSE IF ~loc.options.isDict
       THEN \* options.get on None: raised outside the try of _process_pdf,
            \* caught by analyze_document
            /\ Return(FailureTb("'NoneType' object has no attribute 'get'"))
            /\ Raise("process")
            /\ UNCHANGED <<loc, invoked>>
       ELSE IF ~loc.options.use_deepdoctection
       THEN /\ loc' = [loc EXCEPT !.res = V2PdfResult(loc),
                                  !.attempts = Append(@, Attempt("deepdoctection", "skipped"))]
            /\ pc' = "v2_cleanup"
            /\ UNCHANGED <<result, exc, invoked, raised>>
       ELSE \E found \in 0..1, raises \in BOOLEAN :
            /\ invoked' = Append(invoked, "deepdoctection")
            /\ loc' = [loc EXCEPT
                   !.tables = @ + found,
                   !.res = V2PdfResult([loc EXCEPT !.tables = @ + found]),
                   !.attempts = Append(@, Attempt("deepdoctection",
                                    IF raises THEN "failed" ELSE "ok"))]
            /\ raised' = IF raises THEN raised \cup {"process"} ELSE raised
            /\ pc' = "v2_cleanup"
            /\ UNCHANGED <<result, exc>>
    /\ UNCHANGED <<wrapper, flags, argv, env, stdout, exitCode, files, created>>

\* What open(path).read() gives for a file that exists.
V2GenericLimit == 10000

FileTexts == {"", "plain text", Fill(V2GenericLimit), Fill(V2GenericLimit + 1)}

\* _process_generic
V2Generic ==
    /\ pc = "v2_generic"
    /\ IF loc.path \notin files
       THEN \* open() fails and is swallowed; os.path.getsize raises, caught
            \* by analyze_document
            /\ Return(FailureTb("[Errno 2] No such file or directory"))
            /\ Raise("process")
            /\ UNCHANGED loc
       ELSE \E text \in FileTexts :
            /\ loc' = [loc EXCEPT !.res =
                   [NoResult EXCEPT
                       !.success = TRUE,
                       !.keys = {"success", "document", "metadata", "libraries_used"},
                       !.text = Slice(text, V2GenericLimit),
                       !.format = "text",
                       !.metaKeys = {"file_size"},
                       !.libraries_used = V2LibrariesUsed]]
            /\ pc' = "v2_cleanup"
            /\ UNCHANGED <<result, exc, raised>>
    /\ UNCHANGED <<wrapper, flags, argv, env, stdout, exitCode, files, created, invoked>>

\* analyze_document: "Clean up" and return result
V2Cleanup ==
    /\ pc = "v2_cleanup"
    /\ IF ~StartsWith(loc.path, "/tmp/")
       THEN /\ Return(loc.res)
            /\ UNCHANGED <<files, raised>>
       ELSE IF loc.path \in files
       THEN /\ files' = files \ {loc.path}
            /\ Return(loc.res)
            /\ UNCHANGED raised
       ELSE \* os.unlink raises FileNotFoundError, caught by analyze_document
            /\ Return(FailureTb("[Errno 2] No such file or directory"))
            /\ Raise("process")
            /\ UNCHANGED files
    /\ UNCHANGED <<wrapper, flags, argv, env, loc, stdout, exitCode, created, invoked>>

(***************************************************************************)
(* deepdoctection_wrapper.py: DeepDoctectionWrapper.                       *)
(***************************************************************************)
\* DEEPDOCTECTION_AVAILABLE and ADVANCED_FEATURES: the inner probe runs only
\* when the outer import succeeded.
V1Flags ==
    { f \in [{"deepdoctection", "advanced_features"} -> BOOLEAN] :
        f["advanced_features"] => f["deepdoctection"] }

\* IMPORT_ERROR = str(e) of the failed import
V1ImportError == "No module named 'deepdoctection'"

\* f"DeepDoctection not available: {IMPORT_ERROR if not DEEPDOCTECTION_AVAILABLE else 'Unknown'}"
V1NotAvailable ==
    "DeepDoctection not available: "
        \o (IF ~flags["deepdoctection"] THEN V1ImportError ELSE "Unknown")

\* The except clause of process_document.
V1Failed(e) == FailureTb("DeepDoctection processing failed: " \o e.msg)

\* _download_document: the suffix of the temporary file.
V1DownloadExt(url) ==
    IF Contains(Lower(url), ".pdf") THEN ".pdf"
    ELSE IF Contains(Lower(url), ".png") THEN ".png"
    ELSE IF Contains(Lower(url), ".jpg") \/ Contains(Lower(url), ".jpeg") THEN ".jpg"
    ELSE IF Contains(Lower(url), ".tiff") \/ Contains(Lower(url), ".tif") THEN ".tiff"
    ELSE ".pdf"

\* _detect_format
V1DetectFormat(url) ==
    IF Contains(Lower(url), ".pdf") THEN "pdf"
    ELSE IF Contains(Lower(url), ".png") \/ Contains(Lower(url), ".jpg")
            \/ Contains(Lower(url), ".jpeg") THEN "image"
    ELSE IF Contains(Lower(url), ".tiff") \/ Contains(Lower(url), ".tif") THEN "tiff"
    ELSE "unknown"

\* "\n\n".join of n page texts
RECURSIVE JoinPages(_, _)
JoinPages(n, ptext) ==
    IF n = 0 THEN ""
    ELSE IF n = 1 THEN ptext
    ELSE JoinPages(n - 1, ptext) \o "\n\n" \o ptext

\* _build_result
V1BuildResult(n, ptext, ptables, document_url, serializable) ==
    [NoResult EXCEPT
        !.success = TRUE,
        !.keys = {"success", "document", "metadata", "tables", "figures", "pages"},
        !.text = JoinPages(n, ptext),
        !.pages = n,
        !.format = V1DetectFormat(document_url),
        !.metaKeys = {"title", "page_count", "table_count", "figure_count", "analyzer"},
        !.tables = n * ptables,
        !.serializable = serializable]

V1HtmlLimit == 1000

\* _get_fallback_result: the result of the HTML branch
V1HtmlFallback(text) ==
    [NoResult EXCEPT
        !.success = TRUE,
        !.keys = {"success", "mock", "document", "metadata", "error"},
        !.mock = TRUE,
        !.text = Slice(text, V1HtmlLimit),
        !.pages = 1,
        !.format = "html",
        !.metaKeys = {"title", "analyzer"},
        !.error = V1NotAvailable]

\* _get_fallback_result: "Default mock response"
V1MockFallback(document_url) ==
    [NoResult EXCEPT
        !.success = TRUE,
        !.keys = {"success", "mock", "document", "metadata", "tables", "figures", "error"},
        !.mock = TRUE,
        !.text = "Mock DeepDoctection result for: "
                    \o (IF document_url = None THEN "None" ELSE document_url),
        !.pages = 1,
        !.format = "unknown",
        !.metaKeys = {"title", "analyzer"},
        !.error = V1NotAvailable]

\* process_document up to the analyzer's creation, with _download_document.
DDEnter ==
    /\ pc = "dd"
    /\ IF ~flags["deepdoctection"]
       THEN /\ pc' = "dd_fallback"
            /\ UNCHANGED <<result, exc, loc, files, created, invoked, raised>>
       ELSE IF argv.json = "nondict"
       THEN /\ Return(V1Failed(AttributeErr("'list' object has no attribute 'get'")))
            /\ Raise("process")
            /\ UNCHANGED <<loc, files, created, invoked>>
       ELSE LET document_url == Get(argv.config.document_url, None)
                options == argv.config.options
            IN  IF Falsy(document_url)
                THEN /\ Return(Failure("document_url is required"))
                     /\ UNCHANGED <<loc, files, created, invoked, raised>>
                ELSE IF ~StartsWith(document_url, "http")
                THEN /\ loc' = [loc EXCEPT !.document_url = document_url,
                                           !.options = options,
                                           !.path = document_url]
                     /\ pc' = "dd_create"
                     /\ UNCHANGED <<result, exc, files, created, invoked, raised>>
                ELSE \E fetch \in {NoExc} \cup FetchErrors :
                     /\ invoked' = Append(invoked, "requests")
                     /\ IF fetch # NoExc
                        THEN /\ Return(V1Failed(fetch))
                             /\ Raise("process")
                             /\ loc' = [loc EXCEPT !.fetch = "failed"]
                             /\ UNCHANGED <<files, created>>
                        ELSE LET path == TmpName(V1DownloadExt(document_url))
                             IN  /\ files' = files \cup {path}
                                 /\ created' = created \cup {path}
                                 /\ loc' = [loc EXCEPT !.document_url = document_url,
                                                       !.options = options,
                                                       !.fetch = "ok",
                                                       !.path = path]
                                 /\ pc' = "dd_create"
                                 /\ UNCHANGED <<result, exc, raised>>
    /\ UNCHANGED <<wrapper, flags, argv, env, stdout, exitCode>>

MissingDependency_Any(e) == Caught(e, {"Exception"})

\* except (ModuleNotFoundError, ImportError): the failures of analyzer
\* creation that process_document answers with the fallback result.
MissingDependency(e) == Caught(e, {"ModuleNotFoundError", "ImportError"})

\* analyzer = self._create_analyzer(options), under
\* except (ModuleNotFoundError, ImportError): _create_analyzer swallows every
\* failure of get_dd_analyzer and returns None when both attempts fail.
DDCreateAnalyzer ==
    /\ pc = "dd_create"
    /\ IF ~loc.options.isDict
       THEN LET e == AttributeErr("'NoneType' object has no attribute 'get'")
            IN  /\ Raise("process")
                /\ UNCHANGED <<loc, invoked>>
                /\ IF MissingDependency(e)
                   THEN pc' = "dd_fallback" /\ UNCHANGED <<result, exc>>
                   ELSE Return(V1Failed(e))
       ELSE \E custom_ok \in BOOLEAN, minimal_ok \in BOOLEAN :
            /\ custom_ok => minimal_ok
            /\ invoked' = Append(invoked, "deepdoctection")
            /\ loc' = [loc EXCEPT !.analyzer = custom_ok \/ minimal_ok]
            /\ raised' = IF custom_ok THEN raised ELSE raised \cup {"process"}
            /\ pc' = "dd_analyze"
            /\ UNCHANGED <<result, exc>>
    /\ UNCHANGED <<wrapper, flags, argv, env, stdout, exitCode, files, created>>

\* A variant of V1PageRecords in which the first page whose extraction
\* raised ends the loop.
V1PageRecords_Abort(n, bad) ==
    LET upto == IF bad = {} THEN n
                ELSE (CHOOSE k \in bad : \A j \in bad : k <= j) - 1
    IN  [k \in 1..upto |-> [page_number |-> k, error |-> FALSE]]

\* analysis_results: one record per page the analyzer yielded, made by
\* _extract_page_info, whose except clause stores the error of a page whose
\* extraction raised (the pages `bad`) in that page's record.
V1PageRecords(n, bad) ==
    [k \in 1..n |-> [page_number |-> k, error |-> k \in bad]]

\* process_document: the analysis loop, the cleanup and _build_result.
DDAnalyze ==
    /\ pc = "dd_analyze"
    /\ IF ~loc.analyzer
       THEN /\ Return(V1Failed(AttributeErr("'NoneType' object has no attribute 'analyze'")))
            /\ Raise("process")
            /\ UNCHANGED <<loc, files, invoked>>
       ELSE \E run \in PageRuns(loc.path \in files), e \in BackendErrors,
               norm \in {NoExc} \cup BackendErrors, serializable \in BOOLEAN,
               bad \in SUBSET (1..MaxPages) :
            /\ bad \subseteq 1..run.n
            /\ run.raises => bad = {}
            /\ invoked' = Append(invoked, "deepdoctection")
            /\ IF run.raises
               THEN /\ Return(V1Failed(e))
                    /\ Raise("process")
                    /\ UNCHANGED <<loc, files>>
               ELSE /\ files' = IF StartsWith(loc.path, "/tmp/")
                                THEN files \ {loc.path} ELSE files
                    /\ loc' = [loc EXCEPT !.norm_error = norm, !.pages = run.n,
                                           !.bad = bad]
                    /\ IF norm # NoExc
                       THEN \* _build_result raised: the except clause of
                            \* process_document takes it
                            /\ Return(V1Failed(norm))
                            /\ Raise("process")
                       ELSE LET analysis_results == V1PageRecords(run.n, bad)
                            IN  /\ Return([V1BuildResult(Len(analysis_results),
                                                run.ptext, run.ptables, loc.document_url,
                                                serializable \/ run.n * run.ptables = 0)
                                            EXCEPT !.page_records = analysis_results])
                                /\ UNCHANGED raised
    /\ UNCHANGED <<wrapper, flags, argv, env, stdout, exitCode, created>>

\* What the HTML text extraction of the fallback yields.
HtmlTexts == {"", "Hello page", Fill(V1HtmlLimit), Fill(V1HtmlLimit + 1)}

\* _get_fallback_result
DDFallback ==
    /\ pc = "dd_fallback"
    /\ IF argv.json = "nondict"
       THEN \* config.get(...) of a call made outside the try of process_document
            /\ Propagate(AttributeErr("'list' object has no attribute 'get'"))
            /\ Raise("process")
            /\ UNCHANGED <<loc, invoked>>
       ELSE LET document_url == Get(argv.config.document_url, "unknown")
            IN  IF document_url = None
                THEN \* None.startswith: AttributeError, swallowed
                     /\ Return(V1MockFallback(document_url))
                     /\ Raise("process")
                     /\ UNCHANGED <<loc, invoked>>
                ELSE IF ~StartsWith(document_url, "http")
                THEN /\ Return(V1MockFallback(document_url))
                     /\ UNCHANGED <<loc, invoked, raised>>
                ELSE \E got \in {"error", "html", "other"}, text \in HtmlTexts :
                     /\ invoked' = Append(invoked, "requests")
                     /\ got = "html" \/ text = ""
                     /\ raised' = IF got = "error" THEN raised \cup {"process"} ELSE raised
                     /\ loc' = [loc EXCEPT !.fetch = IF got = "error" THEN "failed" ELSE "ok"]
                     /\ Return(IF got = "html" THEN V1HtmlFallback(text)
                               ELSE V1MockFallback(document_url))
    /\ UNCHANGED <<wrapper, flags, argv, env, stdout, exitCode, files, created>>

(***************************************************************************)
(* docling_wrapper.py: DoclingWrapper.                                     *)
(***************************************************************************)
\* DOCLING_AVAILABLE and PIPELINE_OPTIONS_AVAILABLE: the inner probe runs
\* only when the outer import succeeded.
DoclingFlags ==
    { f \in [{"docling", "pipeline_options"} -> BOOLEAN] :
        f["pipeline_options"] => f["docling"] }

\* IMPORT_ERROR = str(e) of the failed import
DoclingImportError == "No module named 'docling'"

\* Inline document_data: base64 text, text that base64.b64decode rejects
\* (and that is then taken as raw text), or none.
DoclingData == {Absent, "", "JVBERi0xLjQ=", "plain words"}

DoclingUrls == {Absent, "http://h/a.pdf", "/data/doc.PDF"}

DoclingOptionBags ==
    { NoOptions, NullOptions,
      [NoOptions EXCEPT !.document_type = "docx"],
      [NoOptions EXCEPT !.document_type = "epub"] }

DoclingConfigs ==
    { [NoConfig EXCEPT !.document_url = u, !.document_data = d, !.options = o] :
        u \in DoclingUrls, d \in DoclingData, o \in DoclingOptionBags }

\* The characters of printable ASCII: codes 32 to 95, and codes 97 to 126.
AsciiLow ==
    " !\"#$%&'()*+,-./0123456789:;<=>?@ABCDEFGHIJKLMNOPQRSTUVWXYZ[\\]^_"

AsciiHigh == "abcdefghijklmnopqrstuvwxyz{|}~"

\* ord(c)
Ord(c) ==
    IF \E k \in 1..Len(AsciiLow) : SubSeq(AsciiLow, k, k) = c
    THEN 31 + (CHOOSE k \in 1..Len(AsciiLow) : SubSeq(AsciiLow, k, k) = c)
    ELSE 96 + (CHOOSE k \in 1..Len(AsciiHigh) : SubSeq(AsciiHigh, k, k) = c)

\* document_data.encode('utf-8') of ASCII text: one byte per character.
Utf8Encode(text) == [i \in 1..Len(text) |-> Ord(SubSeq(text, i, i))]

B64Alphabet == "ABCDEFGHIJKLMNOPQRSTUVWXYZabcdefghijklmnopqrstuvwxyz0123456789+/"

\* The value of a base64 digit, or 64 for any other character.
B64Value(c) ==
    IF \E k \in 1..Len(B64Alphabet) : SubSeq(B64Alphabet, k, k) = c
    THEN (CHOOSE k \in 1..Len(B64Alphabet) : SubSeq(B64Alphabet, k, k) = c) - 1
    ELSE 64

\* base64.b64decode(s) with validate=False: characters outside the alphabet
\* are skipped, a complete run of padding ends the input, and input that
\* ends inside a quad raises binascii.Error.
RECURSIVE B64Scan(_, _, _, _, _)
B64Scan(s, quad_pos, pads, leftchar, out) ==
    IF s = ""
    THEN [ok |-> quad_pos = 0, bytes |-> IF quad_pos = 0 THEN out ELSE <<>>]
    ELSE LET c == SubSeq(s, 1, 1)
             rest == SubSeq(s, 2, Len(s))
             v == B64Value(c)
         IN  IF c = "="
             THEN IF quad_pos >= 2 /\ quad_pos + pads + 1 >= 4
                  THEN [ok |-> TRUE, bytes |-> out]
                  ELSE B64Scan(rest, quad_pos,
                               IF quad_pos >= 2 THEN pads + 1 ELSE pads,
                               leftchar, out)
             ELSE IF v = 64
             THEN B64Scan(rest, quad_pos, pads, leftchar, out)
             ELSE CASE quad_pos = 0 -> B64Scan(rest, 1, 0, v, out)
                    [] quad_pos = 1 ->
                         B64Scan(rest, 2, 0, v % 16, Append(out, leftchar * 4 + v \div 16))
                    [] quad_pos = 2 ->
                         B64Scan(rest, 3, 0, v % 4, Append(out, leftchar * 16 + v \div 4))
                    [] quad_pos = 3 ->
                         B64Scan(rest, 0, 0, 0, Append(out, leftchar * 64 + v))

B64Decode(s) == B64Scan(s, 0, 0, 0, <<>>)

\* document_bytes of process_document: the decoded data, or the text's own
\* bytes when b64decode raised.
DoclingDocumentBytes(document_data) ==
    IF B64Decode(document_data).ok THEN B64Decode(document_data).bytes
    ELSE Utf8Encode(document_data)

\* _get_file_suffix: suffix_map.get(doc_type, ".pdf")
DoclingFileSuffix(options) ==
    LET doc_type == Get(options.document_type, "pdf")
    IN  CASE doc_type = "pdf" -> ".pdf"
          [] doc_type = "docx" -> ".docx"
          [] doc_type = "doc" -> ".doc"
          [] doc_type = "pptx" -> ".pptx"
          [] doc_type = "ppt" -> ".ppt"
          [] doc_type = "xlsx" -> ".xlsx"
          [] doc_type = "xls" -> ".xls"
          [] doc_type = "html" -> ".html"
          [] doc_type = "txt" -> ".txt"
          [] doc_type = "md" -> ".md"
          [] OTHER -> ".pdf"

\* The early return of process_document when Docling is not installed.
DoclingNotAvailable ==
    [NoResult EXCEPT
        !.keys = {"success", "error", "mock"},
        !.error = "Docling not available: " \o DoclingImportError,
        !.mock = TRUE]

\* A variant of DoclingMock that does not flag its result as a mock.
DoclingMock_Unflagged(e) ==
    [NoResult EXCEPT
        !.success = TRUE,
        !.keys = {"success", "document", "metadata", "tables", "figures",
                  "processing_error"},
        !.text = "Mock Docling extracted content (processing failed)",
        !.pages = 1,
        !.format = "pdf",
        !.processing_error = e.msg]

\* The except clause of process_document: "provide a mock response".
DoclingMock(e) ==
    [NoResult EXCEPT
        !.success = TRUE,
        !.keys = {"success", "document", "metadata", "tables", "figures",
                  "annotations", "bookmarks", "form_fields", "embedded_files",
                  "processing_error", "mock"},
        !.mock = TRUE,
        !.text = "Mock Docling extracted content (processing failed)",
        !.pages = 1,
        !.format = "pdf",
        !.metaKeys = {"title", "author", "created_date", "page_count",
                      "word_count", "document_type", "language"},
        !.processing_error = e.msg]

\* _process_result: the processed dict
DoclingProcessed(text, tables, serializable) ==
    [NoResult EXCEPT
        !.success = TRUE,
        !.keys = {"success", "document", "metadata", "tables", "figures",
                  "annotations", "bookmarks", "form_fields", "embedded_files"},
        !.text = text,
        !.format = "pdf",
        !.metaKeys = {"document_type"},
        !.tables = tables,
        !.serializable = serializable]

\* A variant of DoclingInput that prefers the URL.
DoclingInput_UrlFirst(document_data, document_url) ==
    IF ~Falsy(document_url) THEN "docling_url" ELSE "docling_bytes"

\* if document_data: ... _process_from_bytes  else: _process_from_url
DoclingInput(document_data, document_url) ==
    IF ~Falsy(document_data) THEN "docling_bytes" ELSE "docling_url"

\* process_document up to the choice of the input, with _create_converter.
DoclingEnter ==
    /\ pc = "docling"
    /\ IF ~flags["docling"]
       THEN /\ Return(DoclingNotAvailable)
            /\ UNCHANGED <<loc, invoked, raised>>
       ELSE IF argv.json = "nondict"
       THEN /\ Return(DoclingMock(AttributeErr("'list' object has no attribute 'get'")))
            /\ Raise("process")
            /\ UNCHANGED <<loc, invoked>>
       ELSE LET document_data == Get(argv.config.document_data, None)
                document_url == Get(argv.config.document_url, None)
            IN  IF Falsy(document_data) /\ Falsy(document_url)
                THEN /\ Return(Failure("Either document_data or document_url is required"))
                     /\ UNCHANGED <<loc, invoked, raised>>
                ELSE \E first \in {NoExc} \cup BackendErrors,
                        second \in {NoExc} \cup BackendErrors :
                     /\ first = NoExc => second = NoExc
                     /\ invoked' = invoked \o <<"docling">>
                            \o (IF first # NoExc THEN <<"docling">> ELSE <<>>)
                     /\ raised' = IF first # NoExc THEN raised \cup {"process"} ELSE raised
                     /\ IF second # NoExc
                        THEN /\ Return(DoclingMock(second))
                             /\ UNCHANGED loc
                        ELSE /\ loc' = [loc EXCEPT !.document_url = document_url,
                                                   !.options = argv.config.options,
                                                   !.data = IF Falsy(document_data) THEN <<>>
                                                            ELSE DoclingDocumentBytes(document_data)]
                             /\ pc' = DoclingInput(document_data, document_url)
                             /\ UNCHANGED <<result, exc>>
    /\ UNCHANGED <<wrapper, flags, argv, env, stdout, exitCode, files, created>>

\* _process_from_url: the download
DoclingFromUrl ==
    /\ pc = "docling_url"
    /\ invoked' = Append(invoked, "urllib")
    /\ \E fetch \in {NoExc} \cup FetchErrors :
        /\ StartsWith(loc.document_url, "http") \/ fetch # NoExc
        /\ IF fetch # NoExc
           THEN /\ Return(DoclingMock(Exc("Exception",
                        "Failed to download document from URL " \o loc.document_url
                            \o ": " \o fetch.msg)))
                /\ Raise("process")
                /\ loc' = [loc EXCEPT !.fetch = "failed"]
           ELSE /\ loc' = [loc EXCEPT !.data = Utf8Encode("%PDF-1.4"), !.fetch = "ok"]
                /\ pc' = "docling_bytes"
                /\ UNCHANGED <<result, exc, raised>>
    /\ UNCHANGED <<wrapper, flags, argv, env, stdout, exitCode, files, created>>

\* _process_from_bytes: the temporary file, converter.convert and the
\* finally clause that unlinks the file.
DoclingFromBytes ==
    /\ pc = "docling_bytes"
    /\ IF ~loc.options.isDict
       THEN \* _get_file_suffix: options.get on None, before the file is created
            /\ Return(DoclingMock(AttributeErr("'NoneType' object has no attribute 'get'")))
            /\ Raise("process")
            /\ UNCHANGED <<created, invoked>>
       ELSE \E convert \in {NoExc} \cup BackendErrors :
            /\ created' = created \cup {TmpName(DoclingFileSuffix(loc.options))}
            /\ invoked' = Append(invoked, "docling")
            /\ IF convert # NoExc
               THEN /\ Return(DoclingMock(convert))
                    /\ Raise("process")
               ELSE /\ pc' = "docling_result"
                    /\ UNCHANGED <<result, exc, raised>>
    /\ UNCHANGED <<wrapper, flags, argv, env, loc, stdout, exitCode, files>>

\* _process_result
DoclingProcessResult ==
    /\ pc = "docling_result"
    /\ \E e \in {NoExc} \cup BackendErrors, text \in {"", "# Title"},
          tables \in 0..1, serializable \in BOOLEAN :
        /\ e = NoExc \/ (text = "" /\ tables = 0 /\ serializable)
        /\ loc' = [loc EXCEPT !.norm_error = e]
        /\ IF e # NoExc
           THEN /\ Return(ProcessResultFailed(e))
                /\ Raise("process")
           ELSE /\ Return(DoclingProcessed(text, tables, serializable))
                /\ UNCHANGED raised
    /\ UNCHANGED <<wrapper, flags, argv, env, stdout, exitCode, files,
                   created, invoked>>

(***************************************************************************)
(* crawl4ai_wrapper.py: Crawl4AIWrapper.                                   *)
(***************************************************************************)
CrawlSubFeatures ==
    {"extraction_strategies", "regex_extraction", "regex_chunking", "content_filters"}

\* CRAWL4AI_AVAILABLE and the four sub-feature flags: the inner probes run
\* only when the outer import succeeded.
CrawlFlags ==
    { f \in [{"crawl4ai"} \cup CrawlSubFeatures -> BOOLEAN] :
        \A x \in CrawlSubFeatures : f[x] => f["crawl4ai"] }

\* IMPORT_ERROR = str(e) of the failed import
CrawlImportError == "No module named 'crawl4ai'"

\* The "Basic parameters" _prepare_crawl_params copies.
CrawlBasicParams ==
    { "word_count_threshold", "css_selector", "screenshot", "user_agent",
      "headers", "wait_for", "page_timeout", "delay_before_return_html",
      "js_code", "remove_overlay_elements", "simulate_user",
      "override_navigator", "magic", "session_id", "cache_mode",
      "excluded_tags", "only_text", "process_iframes", "remove_forms",
      "social_media_links", "social_media_domains" }

CrawlConfigBags ==
    [ plain : {{}, {"css_selector", "proxy"}},
      extraction_strategy : {Absent, "llm", "cosine", "regex"},
      chunking_strategy : {Absent, "regex"},
      content_filter : {Absent, "bm25"} ]

CrawlUrls == {Absent, None, "", "http://h/page"}

\* config.get("crawler_config", {}): the option names it holds.
CrawlerConfigBags == {{}, {"headless", "frobnicate"}}

CrawlConfigs ==
    { [NoConfig EXCEPT !.url = u, !.crawler_config = k, !.crawl_config = c] :
        u \in CrawlUrls, k \in CrawlerConfigBags, c \in CrawlConfigBags }

\* crawler_config['verbose'] = False; AsyncWebCrawler(**crawler_config)
CrawlerKwargs(crawler_config) == crawler_config \cup {"verbose"}

\* What a crawl4ai call can raise.
CrawlErrors ==
    { Exc("RuntimeError", "backend failed"),
      Exc("TypeError", "unexpected keyword argument 'llm_config'"),
      Exc("ValueError", "The 'provider' parameter is DEPRECATED"),
      Exc("ValueError", "The 'proxy' parameter is deprecated") }

\* A variant of IsDeprecatedProvider that is content with either word.
IsDeprecatedProvider_Either(e) ==
    Contains(Lower(e.msg), "deprecated") \/ Contains(Lower(e.msg), "provider")

\* "deprecated" in error_msg.lower() and "provider" in error_msg.lower()
IsDeprecatedProvider(e) ==
    Contains(Lower(e.msg), "deprecated") /\ Contains(Lower(e.msg), "provider")

\* {k: v for k, v in crawl_config.items() if k != "extraction_strategy"}
StripStrategy(cfg) == [cfg EXCEPT !.extraction_strategy = Absent]

\* The early return of crawl when Crawl4AI is not installed.
CrawlNotAvailable ==
    [NoResult EXCEPT
        !.keys = {"success", "error", "mock"},
        !.error = "Crawl4AI not available: " \o CrawlImportError,
        !.mock = TRUE]

\* The attributes of a CrawlResult that _process_result reads with getattr.
CrawlResultAttrs ==
    { "success", "url", "html", "cleaned_html", "markdown", "extracted_content",
      "fit_markdown", "fit_html", "metadata", "links", "images", "media",
      "screenshot", "response_headers", "status_code", "session_id",
      "error_message" }

\* The defaults of _process_result that are None: "screenshot": None,
\* getattr(first_result, 'error_message', None), and for session_id
\* config.get('crawl_config', {}).get('session_id').
CrawlNullDefaults(crawl_config) ==
    {"screenshot", "error_message"}
        \cup (IF "session_id" \in crawl_config.plain THEN {} ELSE {"session_id"})

\* A variant of CrawlProcessed that stamps the result with a call count.
CrawlProcessed_Stamped(raw, serializable) ==
    [NoResult EXCEPT
        !.success = raw.success,
        !.keys = {"success", "url", "status_code"},
        !.pages = Len(invoked),
        !.serializable = serializable]

\* _process_result: the processed dict; success is the backend's own flag.
CrawlProcessed(raw, serializable) ==
    [NoResult EXCEPT
        !.success = raw.success,
        !.nulls = CrawlNullDefaults(argv.config.crawl_config) \ raw.attrs,
        !.keys = {"success", "url", "html", "cleaned_html", "markdown",
                  "extracted_content", "fit_markdown", "fit_html", "metadata",
                  "links", "images", "media", "screenshot", "response_headers",
                  "status_code", "session_id", "error_message"},
        !.format = "html",
        !.serializable = serializable]

\* crawl: an exception raised by _prepare_crawl_params.  The first call's
\* exception is tested (error_msg = str(e)) and the call is retried without
\* the extraction strategy on a deprecated-provider error; anything else,
\* and any error of the second call, goes to the except clause of crawl.
CrawlPrepareFailed(e) ==
    /\ Raise("process")
    /\ IF loc.attempt = 1 /\ IsDeprecatedProvider(e)
       THEN /\ loc' = [loc EXCEPT !.attempt = 2,
                                  !.error_msg = e.msg,
                                  !.cfg = StripStrategy(argv.config.crawl_config),
                                  !.params = argv.config.crawl_config.plain \cap CrawlBasicParams]
            /\ pc' = "crawl_extraction"
            /\ UNCHANGED <<result, exc>>
       ELSE /\ Return(FailureTb(e.msg))
            /\ loc' = [loc EXCEPT !.error_msg = IF loc.attempt = 1 THEN e.msg ELSE @]

\* crawl up to the creation of the crawler, and the "Basic parameters" of
\* _prepare_crawl_params.
CrawlEnter ==
    /\ pc = "crawl"
    /\ IF ~flags["crawl4ai"]
       THEN /\ Return(CrawlNotAvailable)
            /\ UNCHANGED <<loc, invoked, raised>>
       ELSE IF argv.json = "nondict"
       THEN /\ Return(FailureTb("'list' object has no attribute 'get'"))
            /\ Raise("process")
            /\ UNCHANGED <<loc, invoked>>
       ELSE IF Falsy(Get(argv.config.url, None))
       THEN /\ Return(Failure("URL is required"))
            /\ UNCHANGED <<loc, invoked, raised>>
       ELSE \E ctor \in {NoExc} \cup CrawlErrors :
            /\ invoked' = Append(invoked, "crawl4ai")
            /\ IF ctor # NoExc
               THEN /\ Return(FailureTb(ctor.msg))
                    /\ Raise("process")
                    /\ loc' = [loc EXCEPT
                          !.kwargs = CrawlerKwargs(argv.config.crawler_config)]
               ELSE /\ loc' = [loc EXCEPT
                          !.crawler = "open",
                          !.kwargs = CrawlerKwargs(argv.config.crawler_config),
                          !.attempt = 1,
                          !.cfg = argv.config.crawl_config,
                          !.params = argv.config.crawl_config.plain \cap CrawlBasicParams]
                    /\ pc' = "crawl_extraction"
                    /\ UNCHANGED <<result, exc, raised>>
    /\ UNCHANGED <<wrapper, flags, argv, env, stdout, exitCode, files, created>>

\* _prepare_crawl_params: "Extraction strategy"
CrawlExtraction ==
    /\ pc = "crawl_extraction"
    /\ LET type == loc.cfg.extraction_strategy
           with == /\ loc' = [loc EXCEPT !.params = @ \cup {"extraction_strategy"}]
                   /\ pc' = "crawl_chunking"
                   /\ UNCHANGED <<result, exc>>
           without == /\ pc' = "crawl_chunking"
                      /\ UNCHANGED <<loc, result, exc>>
       IN  IF type = Absent \/ ~flags["extraction_strategies"]
           THEN without /\ UNCHANGED <<invoked, raised>>
           ELSE IF type = "llm"
           THEN \E new \in {NoExc} \cup CrawlErrors, old \in {NoExc} \cup CrawlErrors :
                /\ Caught(new, {"ImportError", "TypeError", "AttributeError"}) \/ old = NoExc
                /\ invoked' = invoked \o <<"extraction_strategies">>
                       \o (IF Caught(new, {"ImportError", "TypeError", "AttributeError"})
                           THEN <<"extraction_strategies">> ELSE <<>>)
                /\ IF new = NoExc
                   THEN with /\ UNCHANGED raised
                   ELSE IF ~Caught(new, {"ImportError", "TypeError", "AttributeError"})
                   THEN CrawlPrepareFailed(new)
                   ELSE IF old = NoExc
                   THEN with /\ Raise("process")
                   ELSE IF Caught(old, {"TypeError"})
                   THEN without /\ Raise("process")
                   ELSE CrawlPrepareFailed(old)
           ELSE IF type = "cosine" \/ (type = "regex" /\ flags["regex_extraction"])
           THEN \E ctor \in {NoExc} \cup CrawlErrors :
                /\ invoked' = Append(invoked, IF type = "regex" THEN "regex_extraction"
                                              ELSE "extraction_strategies")
                /\ IF ctor = NoExc
                   THEN with /\ UNCHANGED raised
                   ELSE CrawlPrepareFailed(ctor)
           ELSE without /\ UNCHANGED <<invoked, raised>>
    /\ UNCHANGED <<wrapper, flags, argv, env, stdout, exitCode, files, created>>

\* _prepare_crawl_params: "Chunking strategy"
CrawlChunking ==
    /\ pc = "crawl_chunking"
    /\ IF loc.cfg.chunking_strategy = "regex" /\ flags["regex_chunking"]
       THEN \E ctor \in {NoExc} \cup CrawlErrors :
            /\ invoked' = Append(invoked, "regex_chunking")
            /\ IF ctor = NoExc
               THEN /\ loc' = [loc EXCEPT !.params = @ \cup {"chunking_strategy"}]
                    /\ pc' = "crawl_filter"
                    /\ UNCHANGED <<result, exc, raised>>
               ELSE CrawlPrepareFailed(ctor)
       ELSE /\ pc' = "crawl_filter"
            /\ UNCHANGED <<loc, result, exc, invoked, raised>>
    /\ UNCHANGED <<wrapper, flags, argv, env, stdout, exitCode, files, created>>

\* _prepare_crawl_params: "Content filter", and return params
CrawlFilter ==
    /\ pc = "crawl_filter"
    /\ IF loc.cfg.content_filter \in {"bm25", "pruning"} /\ flags["content_filters"]
       THEN \E ctor \in {NoExc} \cup CrawlErrors :
            /\ invoked' = Append(invoked, "content_filters")
            /\ IF ctor = NoExc
               THEN /\ loc' = [loc EXCEPT !.params = @ \cup {"content_filter"}]
                    /\ pc' = "crawl_arun"
                    /\ UNCHANGED <<result, exc, raised>>
               ELSE CrawlPrepareFailed(ctor)
       ELSE /\ pc' = "crawl_arun"
            /\ UNCHANGED <<loc, result, exc, invoked, raised>>
    /\ UNCHANGED <<wrapper, flags, argv, env, stdout, exitCode, files, created>>

\* What crawler.arun returns: the backend's own success flag, and the
\* attributes the object carries (all that _process_result reads, or, for
\* a backend version that has none of them, none: success is then read by
\* its default).
CrawlRaws ==
    { r \in [success : BOOLEAN, attrs : {{}, CrawlResultAttrs}] :
        r.attrs = {} => r.success }

\* result = await crawler.arun(url, **crawl_params)
CrawlArun ==
    /\ pc = "crawl_arun"
    /\ \E out \in {NoExc} \cup CrawlErrors, raw \in CrawlRaws :
        /\ out = NoExc \/ raw.success
        /\ invoked' = Append(invoked, "crawl4ai")
        /\ loc' = [loc EXCEPT !.aruns = @ + 1, !.raw = raw,
                              !.error_msg = IF out = NoExc THEN @ ELSE out.msg]
        /\ IF out = NoExc
           THEN /\ pc' = "crawl_close"
                /\ UNCHANGED <<result, exc, raised>>
           ELSE IF IsDeprecatedProvider(out)
           THEN /\ pc' = "crawl_retry"
                /\ Raise("process")
                /\ UNCHANGED <<result, exc>>
           ELSE /\ Return(FailureTb(out.msg))
                /\ Raise("process")
    /\ UNCHANGED <<wrapper, flags, argv, env, stdout, exitCode, files, created>>

\* result = await crawler.arun(url, **crawl_params_no_strategy)
CrawlRetry ==
    /\ pc = "crawl_retry"
    /\ \E out \in {NoExc} \cup CrawlErrors, raw \in CrawlRaws :
        /\ out = NoExc \/ raw.success
        /\ invoked' = Append(invoked, "crawl4ai")
        /\ loc' = [loc EXCEPT !.aruns = @ + 1, !.raw = raw,
                              !.params = @ \ {"extraction_strategy"}]
        /\ IF out = NoExc
           THEN /\ pc' = "crawl_close"
                /\ UNCHANGED <<result, exc, raised>>
           ELSE /\ Return(FailureTb(out.msg))
                /\ Raise("process")
    /\ UNCHANGED <<wrapper, flags, argv, env, stdout, exitCode, files, created>>

\* await crawler.close(), then _process_result
CrawlFinish ==
    /\ pc = "crawl_close"
    /\ \E close \in {NoExc} \cup {Exc("RuntimeError", "backend failed")},
          norm \in {NoExc} \cup {Exc("TypeError", "object of type 'CrawlResult' has no len()")},
          serializable \in BOOLEAN :
        /\ (close = NoExc /\ norm = NoExc) \/ serializable
        /\ close = NoExc \/ norm = NoExc
        /\ invoked' = Append(invoked, "crawl4ai")
        /\ IF close # NoExc
           THEN /\ Return(FailureTb(close.msg))
                /\ Raise("process")
                /\ UNCHANGED loc
           ELSE /\ loc' = [loc EXCEPT !.crawler = "closed",
                                      !.norm_error = norm]
                /\ IF norm # NoExc
                   THEN /\ Return(ProcessResultFailed(norm))
                        /\ Raise("process")
                   ELSE /\ Return(CrawlProcessed(loc.raw, serializable))
                        /\ UNCHANGED raised
    /\ UNCHANGED <<wrapper, flags, argv, env, stdout, exitCode, files, created>>

(***************************************************************************)
(* The specification.                                                      *)
(***************************************************************************)
\* A variant of ProbedFlags in which every probe stands on its own.
ProbedFlags_Flat(w) ==
    CASE w = "crawl4ai" -> [{"crawl4ai"} \cup CrawlSubFeatures -> BOOLEAN]
      [] w = "deepdoctection" -> [{"deepdoctection", "advanced_features"} -> BOOLEAN]
      [] w = "deepdoctection_v2" -> V2Flags
      [] w = "docling" -> [{"docling", "pipeline_options"} -> BOOLEAN]

\* The flags each wrapper's probes can leave.
ProbedFlags(w) ==
    CASE w = "crawl4ai" -> CrawlFlags
      [] w = "deepdoctection" -> V1Flags
      [] w = "deepdoctection_v2" -> V2Flags
      [] w = "docling" -> DoclingFlags

\* The probe that encloses a probe: the sub-features are imported inside the
\* try block of their backend's import.
OuterProbe(w, n) ==
    CASE w = "crawl4ai" /\ n \in CrawlSubFeatures -> "crawl4ai"
      [] w = "deepdoctection" /\ n = "advanced_features" -> "deepdoctection"
      [] w = "docling" /\ n = "pipeline_options" -> "docling"
      [] OTHER -> n

\* The class each probe's except clause names: Exception for the
\* deepdoctection probe of the v2 wrapper, ImportError for every other.
ProbeHandler(w, n) ==
    IF w = "deepdoctection_v2" /\ n = "deepdoctection" THEN "Exception"
    ELSE "ImportError"

\* What importing an optional backend can raise.
LoadErrors ==
    { Exc("ImportError", "No module named 'x'"),
      Exc("OSError", "libGL.so.1: cannot open shared object file") }

\* Module load: every probe imports its backend; a failure its except
\* clause (or the enclosing one) names leaves the flag false, any other
\* failure ends the process with a traceback before main() is called.
ModuleLoad ==
    /\ pc = "load"
    /\ \E f \in ProbedFlags(wrapper), e \in LoadErrors :
        LET ran(n) == OuterProbe(wrapper, n) = n \/ f[OuterProbe(wrapper, n)]
            uncaught ==
                \E n \in DOMAIN f :
                    /\ ran(n) /\ ~f[n]
                    /\ ~Caught(e, {ProbeHandler(wrapper, n)})
        IN  IF uncaught
            THEN /\ pc' = "load_failed"
                 /\ exitCode' = 1
                 /\ UNCHANGED flags
            ELSE /\ pc' = "main"
                 /\ flags' = f
                 /\ UNCHANGED exitCode
    /\ UNCHANGED <<wrapper, argv, env, loc, result, exc, stdout, files, created,
                   invoked, raised>>

\* Before the probes have run no capability is available.
NoFlags(w) == [n \in DOMAIN (CHOOSE f \in ProbedFlags(w) : TRUE) |-> FALSE]

InitV2 ==
    /\ wrapper = "deepdoctection_v2"
    /\ \/ argv \in {NoArg, BadJson, NonDictJson} /\ env \in EnvFor("")
       \/ \E c \in DocConfigs : argv = ConfigArg(c) /\ env \in EnvFor(c.document_url)

InitV1 ==
    /\ wrapper = "deepdoctection"
    /\ \/ argv \in {NoArg, BadJson, NonDictJson} /\ env \in EnvFor("")
       \/ \E c \in DocConfigs : argv = ConfigArg(c) /\ env \in EnvFor(c.document_url)

InitDocling ==
    /\ wrapper = "docling"
    /\ \/ argv \in {NoArg, BadJson, NonDictJson} /\ env \in EnvFor("")
       \/ \E c \in DoclingConfigs : argv = ConfigArg(c) /\ env \in EnvFor(c.document_url)

InitCrawl ==
    /\ wrapper = "crawl4ai"
    /\ env \in EnvFor("")
    /\ \/ argv \in {NoArg, BadJson, NonDictJson}
       \/ \E c \in CrawlConfigs : argv = ConfigArg(c)

Init ==
    /\ (InitCrawl \/ InitV1 \/ InitV2 \/ InitDocling)
    /\ flags = NoFlags(wrapper)
    /\ pc = "load"
    /\ loc = NoLoc
    /\ result = NoResult
    /\ exc = NoExc
    /\ stdout = <<>>
    /\ exitCode = -1
    /\ files = env.disk
    /\ created = {}
    /\ invoked = <<>>
    /\ raised = {}

Next ==
    \/ ModuleLoad
    \/ MainNoArg
    \/ MainParse
    \/ MainPrint
    \/ MainHandler
    \/ CrawlEnter
    \/ CrawlExtraction
    \/ CrawlChunking
    \/ CrawlFilter
    \/ CrawlArun
    \/ CrawlRetry
    \/ CrawlFinish
    \/ DDEnter
    \/ DDCreateAnalyzer
    \/ DDAnalyze
    \/ DDFallback
    \/ V2Init
    \/ DoclingEnter
    \/ DoclingFromUrl
    \/ DoclingFromBytes
    \/ DoclingProcessResult
    \/ V2Analyze
    \/ V2Pdfplumber
    \/ V2Pypdf
    \/ V2DeepDoctection
    \/ V2Generic
    \/ V2Cleanup

Spec == Init /\ [][Next]_vars

(***************************************************************************)
(* The normalizers as functions: one backend output, held in loc, is       *)
(* normalized NormRuns times; loc.res keeps the result of the run before.  *)
(***************************************************************************)
\* The normalizer of the wrapper applied to the backend output in loc:
\* Crawl4AIWrapper._process_result, DeepDoctectionWrapper._build_result (an
\* exception of which process_document turns into its failure result) and
\* DoclingWrapper._process_result.
Normalized ==
    CASE wrapper = "crawl4ai" ->
            IF loc.norm_error # NoExc THEN ProcessResultFailed(loc.norm_error)
            ELSE CrawlProcessed(loc.raw, loc.serializable)
      [] wrapper = "deepdoctection" ->
            IF loc.norm_error # NoExc THEN V1Failed(loc.norm_error)
            ELSE V1BuildResult(loc.pages, loc.text, loc.tables, loc.document_url,
                               loc.serializable)
      [] wrapper = "docling" ->
            IF loc.norm_error # NoExc THEN ProcessResultFailed(loc.norm_error)
            ELSE DoclingProcessed(loc.text, loc.tables, loc.serializable)

\* The backend outputs a normalizer is given, with the exception (if any)
\* their shape makes it raise.
NormInputs(w) ==
    { [NoLoc EXCEPT !.raw = raw, !.pages = run.n, !.text = run.ptext,
                    !.tables = run.ptables, !.document_url = ref,
                    !.norm_error = e, !.serializable = ser] :
        raw \in (IF w = "crawl4ai" THEN CrawlRaws ELSE {NoLoc.raw}),
        run \in (IF w = "crawl4ai" THEN {[n |-> 0, ptext |-> "", ptables |-> 0]}
                 ELSE { [n |-> r.n, ptext |-> r.ptext, ptables |-> r.ptables] :
                          r \in PageRuns(TRUE) }),
        ref \in (IF w = "deepdoctection" THEN HttpRefs \cup LocalRefs ELSE {""}),
        e \in {NoExc, Exc("TypeError", "object of type 'CrawlResult' has no len()")},
        ser \in BOOLEAN }

NormInit ==
    /\ wrapper \in {"crawl4ai", "deepdoctection", "docling"}
    /\ flags \in {f \in ProbedFlags(wrapper) : f[wrapper]}
    /\ argv \in {ConfigArg([NoConfig EXCEPT !.crawl_config = c]) :
                    c \in (IF wrapper = "crawl4ai"
                           THEN {NoCrawlConfig, [NoCrawlConfig EXCEPT !.plain = {"session_id"}]}
                           ELSE {NoCrawlConfig})}
    /\ env = [tmpdir |-> "/tmp", disk |-> {}]
    /\ pc = "normalize"
    /\ loc \in NormInputs(wrapper)
    /\ result = NoResult
    /\ exc = NoExc
    /\ stdout = <<>>
    /\ exitCode = -1
    /\ files = {}
    /\ created = {}
    /\ invoked = <<>>
    /\ raised = {}

Normalize ==
    /\ pc = "normalize"
    /\ Len(invoked) < NormRuns
    /\ result' = Normalized
    /\ loc' = [loc EXCEPT !.res = result]
    /\ invoked' = Append(invoked, "normalize")
    /\ UNCHANGED <<wrapper, flags, argv, env, pc, exc, stdout, exitCode, files,
                   created, raised>>

NormSpec == NormInit /\ [][Normalize]_vars

(***************************************************************************)
(* _build_result as a function of the list of page records.  The tables   *)
(* and figures of a page are named by <<page, index>>.                     *)
(***************************************************************************)
\* A variant of V1Flatten that puts each page's items before those gathered.
RECURSIVE V1Flatten_Prepend(_, _)
V1Flatten_Prepend(analysis_results, key) ==
    IF Len(analysis_results) = 0 THEN <<>>
    ELSE V1Flatten_Prepend(Tail(analysis_results), key) \o Head(analysis_results)[key]

\* for page in analysis_results: all_tables.extend(page.get("tables", []))
RECURSIVE V1Flatten(_, _)
V1Flatten(analysis_results, key) ==
    IF Len(analysis_results) = 0 THEN <<>>
    ELSE Head(analysis_results)[key] \o V1Flatten(Tail(analysis_results), key)

\* _build_result: the counts and lists of the dict it returns.
V1BuildCounts(analysis_results) ==
    LET all_tables == V1Flatten(analysis_results, "tables")
        all_figures == V1Flatten(analysis_results, "figures")
    IN  [ pages |-> Len(analysis_results),
          page_count |-> Len(analysis_results),
          table_count |-> Len(all_tables),
          figure_count |-> Len(all_figures),
          tables |-> all_tables,
          figures |-> all_figures ]

\* The lists of page records _build_result is given: up to MaxPages pages
\* with up to MaxItems tables and figures each.
BuildInputs ==
    { [k \in 1..Len(shape) |->
          [ page_number |-> k,
            tables |-> [i \in 1..shape[k].t |-> <<k, i>>],
            figures |-> [i \in 1..shape[k].f |-> <<k, i>>] ]] :
        shape \in UNION { [1..n -> [t : 0..MaxItems, f : 0..MaxItems]] : n \in 0..MaxPages } }

BuildInit ==
    /\ wrapper = "deepdoctection"
    /\ flags \in {f \in V1Flags : f["deepdoctection"]}
    /\ argv = ConfigArg([NoConfig EXCEPT !.document_url = "/data/doc.PDF"])
    /\ env = [tmpdir |-> "/tmp", disk |-> {"/data/doc.PDF"}]
    /\ pc = "dd_build"
    /\ loc \in {[NoLoc EXCEPT !.analysis_results = ar] : ar \in BuildInputs}
    /\ result = NoResult
    /\ exc = NoExc
    /\ stdout = <<>>
    /\ exitCode = -1
    /\ files = env.disk
    /\ created = {}
    /\ invoked = <<"deepdoctection">>
    /\ raised = {}

\* return self._build_result(analysis_results, document_url, options)
Build ==
    /\ pc = "dd_build"
    /\ result' = V1BuildCounts(loc.analysis_results)
    /\ pc' = "print"
    /\ UNCHANGED <<wrapper, flags, argv, env, loc, exc, stdout, exitCode, files,
                   created, invoked, raised>>

BuildSpec == BuildInit /\ [][Build]_vars

(***************************************************************************)
(* The claims.                                                             *)
(***************************************************************************)
\* What main() printed, once it has.
Printed == stdout[Len(stdout)]

\* The request names no target: url for the crawl, document_url for the two
\* DeepDoctection wrappers, neither document_data nor document_url for
\* Docling.
TargetMissing ==
    /\ argv.json = "dict"
    /\ CASE wrapper = "crawl4ai" -> Falsy(Get(argv.config.url, None))
         [] wrapper = "docling" ->
                /\ Falsy(Get(argv.config.document_data, None))
                /\ Falsy(Get(argv.config.document_url, None))
         [] OTHER -> Falsy(Get(argv.config.document_url, None))

\* The wrapper method has returned its dict to main().
Returned == pc = "print" /\ argv.present

\* An exception ended the request: it reached main()'s handler, or the
\* except clause that closes the wrapper method (or its _process_result)
\* built what main() printed.  Those clauses are the ones that record the
\* exception, as "traceback" or as "processing_error".
ExceptionEndedRequest ==
    \/ exc # NoExc
    \/ "traceback" \in Printed.keys
    \/ "processing_error" \in Printed.keys

\* C1: main() never lets an exception propagate, and whenever an exception
\* raised while parsing the configuration, processing the request or
\* serializing the result ended the request, main() ends having printed a
\* JSON object with success=false and an error string.
C1_AnyExceptionPrintsFailure ==
    /\ pc # "crashed"
    /\ (pc = "done" /\ ExceptionEndedRequest) =>
           /\ Len(stdout) = 1
           /\ ~Printed.success
           /\ "error" \in Printed.keys

\* The positions at which a statement of main() or of a wrapper method is
\* about to run.
Running ==
    { "load", "main", "print", "handler",
      "crawl", "crawl_extraction", "crawl_chunking", "crawl_filter",
      "crawl_arun", "crawl_retry", "crawl_close",
      "dd", "dd_create", "dd_analyze", "dd_fallback",
      "v2_init", "v2_analyze", "v2_pdf", "v2_pypdf", "v2_dd", "v2_generic",
      "v2_cleanup",
      "docling", "docling_url", "docling_bytes", "docling_result" }

\* C2: main() writes exactly one JSON object to stdout on every path:
\* nothing is written while it runs, and it ends only by having written one.
\* (A process whose module load failed never calls main().)
C2_ExactlyOneJson ==
    /\ pc = "done" => Len(stdout) = 1
    /\ pc # "done" => (Len(stdout) = 0 /\ pc \in Running \cup {"load_failed"})

\* main() ended through its handler after json.dumps rejected the result.
C2_Witness == pc = "done" /\ "serialize" \in raised /\ Len(stdout) = 1

\* C3: a request without a target ends with success=false, a non-empty
\* error and no backend invoked, whatever the capability flags.
C3_MissingTargetFails ==
    (pc = "done" /\ TargetMissing) =>
        /\ ~Printed.success
        /\ "error" \in Printed.keys
        /\ Printed.error # ""
        /\ invoked = <<>>

\* C4: a dict returned by crawl, process_document or analyze_document with
\* success=false has a non-empty error.
C4_FailureHasError ==
    (Returned /\ ~result.success) =>
        "error" \in result.keys /\ result.error # ""

\* C5: a dict with success=true carries no error.
C5_SuccessHasNoError ==
    (Returned /\ result.success) => "error" \notin result.keys

\* C6: when process_document / analyze_document has returned, no temporary
\* file it created exists.
C6_TempFilesRemoved ==
    (pc \in {"print", "handler", "done"} /\ wrapper # "crawl4ai") =>
        created \cap files = {}

\* C7: every backend call made was to a backend whose capability flag is
\* true.
C7_OnlyAvailableBackends ==
    \A i \in 1..Len(invoked) : Capability(invoked[i])

\* pypdf ran in the PDF cascade because pdfplumber is not installed.
C7_Witness ==
    /\ wrapper = "deepdoctection_v2"
    /\ ~flags["pdfplumber"]
    /\ pc = "v2_cleanup"
    /\ \E i \in 1..Len(invoked) : invoked[i] = "pypdf"

\* _process_pdf has built its return value.
PdfReturned == wrapper = "deepdoctection_v2" /\ pc = "v2_cleanup" /\ loc.res.format = "pdf"

Outcome(backend) ==
    LET hits == {i \in 1..Len(loc.attempts) : loc.attempts[i].backend = backend}
    IN  IF hits = {} THEN "none" ELSE loc.attempts[CHOOSE i \in hits : TRUE].outcome

\* The backends the cascade attempted (called), in the order it called them.
Attempted ==
    LET called(a) == a.outcome # "skipped"
        log == SelectSeq(loc.attempts, called)
    IN  [i \in 1..Len(log) |-> log[i].backend]

\* C8: if pdfplumber succeeds, neither pypdf nor deepdoctection is invoked
\* and the list of backends used has length 1.
C8_ShortCircuit ==
    (PdfReturned /\ Outcome("pdfplumber") = "ok") =>
        /\ Outcome("pypdf") = "skipped"
        /\ Outcome("deepdoctection") = "skipped"
        /\ Len(loc.res.libraries_used) = 1

\* C9: when every attempted candidate failed, the result lists exactly the
\* attempted backends, in priority order.
C9_AttemptedListed ==
    (/\ PdfReturned
     /\ Attempted # <<>>
     /\ \A i \in 1..Len(loc.attempts) : loc.attempts[i].outcome # "ok") =>
        loc.res.libraries_used = Attempted

\* The candidates for the request are exhausted without success: the PDF
\* cascade ended with no candidate having returned, DeepDoctection is
\* missing and its fallback answered, or Docling failed and its mock answered.
Exhausted ==
    /\ Returned
    /\ CASE wrapper = "deepdoctection_v2" ->
                /\ result.format = "pdf"
                /\ \A i \in 1..Len(loc.attempts) : loc.attempts[i].outcome # "ok"
         [] wrapper = "deepdoctection" -> result.mock
         [] wrapper = "docling" -> result.mock /\ result.success
         [] OTHER -> FALSE

\* The result's text comes from the input: it is not empty and not one of
\* the fixed "Mock ..." texts.
ContentFromInput == result.text # "" /\ ~StartsWith(result.text, "Mock ")

\* C10: after exhaustion the result is a success, marked degraded, only if
\* the fallback produced content from the input; with no content it is a
\* failure.
C10_DegradedOnlyWithContent ==
    Exhausted =>
        /\ result.success => (ContentFromInput /\ "degraded" \in result.metaKeys)
        /\ ~ContentFromInput => ~result.success

\* The retries the crawl call made: _prepare_crawl_params called a second
\* time, and crawler.arun called a second time.
Retries ==
    (IF loc.attempt = 2 THEN 1 ELSE 0) + (IF loc.aruns = 2 THEN 1 ELSE 0)

\* A deprecated-provider error was raised by the parameter preparation or by
\* arun of this crawl call: it was retried, or it is the error crawl returned.
DeprecatedSeen ==
    /\ wrapper = "crawl4ai"
    /\ loc.crawler # "none"
    /\ \/ Retries >= 1
       \/ /\ "traceback" \in result.keys
          /\ IsDeprecatedProvider([cls |-> "", msg |-> result.error])

\* The parameters the configuration asks for besides the extraction strategy.
OtherParams ==
    LET c == argv.config.crawl_config
    IN  (c.plain \cap CrawlBasicParams)
        \cup (IF c.chunking_strategy = "regex" /\ flags["regex_chunking"]
              THEN {"chunking_strategy"} ELSE {})
        \cup (IF c.content_filter \in {"bm25", "pruning"} /\ flags["content_filters"]
              THEN {"content_filter"} ELSE {})

\* C11: when the parameter preparation or arun raises a deprecated-provider
\* error, the crawl call makes exactly one retry, counting both together;
\* the retried arun gets the parameters without extraction_strategy and with
\* every other parameter as configured; and a retry that returned a
\* successful crawl, normalized without error, gives success=true.
C11_ExactlyOneRetry ==
    /\ (Returned /\ DeprecatedSeen) => Retries = 1
    /\ (wrapper = "crawl4ai" /\ pc = "crawl_close" /\ Retries >= 1) =>
           loc.params = OtherParams
    /\ (Returned /\ DeprecatedSeen /\ loc.crawler = "closed" /\ loc.raw.success
            /\ "traceback" \notin result.keys) => result.success

\* The message names both words, whatever the case of its letters.
BothWords(msg) ==
    Contains(Lower(msg), "deprecated") /\ Contains(Lower(msg), "provider")

\* How many times the constructor of an extraction strategy was called.
StrategyCalls ==
    Cardinality({i \in 1..Len(invoked) : invoked[i] = "extraction_strategies"})

\* C12, as stated: when crawl has returned after a backend exception and no
\* exception's message named both 'deprecated' and 'provider', no backend
\* call was made a second time and the result is a failure with an error.
C12_OtherErrorsNeverRetried ==
    (/\ Returned
     /\ wrapper = "crawl4ai"
     /\ "process" \in raised
     /\ Retries = 0
     /\ ~BothWords(result.error)) =>
        /\ StrategyCalls <= 1
        /\ loc.aruns <= 1
        /\ ~result.success
        /\ "error" \in result.keys

\* C12, amended: crawl retries (the second _prepare_crawl_params, the second
\* arun) only on a message naming both words; and once
\* an exception whose message does not name both has reached one of crawl's
\* two handlers (error_msg), crawl has returned, without a further backend
\* call, the failure carrying exactly that message.
C12_HandlerNeverRetries ==
    wrapper = "crawl4ai" =>
        /\ ((loc.attempt = 2 /\ loc.aruns = 0) \/ pc = "crawl_retry") =>
               BothWords(loc.error_msg)
        /\ (loc.error_msg # "" /\ ~BothWords(loc.error_msg)) =>
               /\ pc \in {"print", "done"}
               /\ result = FailureTb(loc.error_msg)
               /\ loc.aruns <= 1

\* arun raised an error naming 'deprecated' but not 'provider', and crawl
\* returned it.
C12_Witness ==
    /\ wrapper = "crawl4ai"
    /\ pc = "print"
    /\ loc.aruns = 1
    /\ loc.error_msg = "The 'proxy' parameter is deprecated"
    /\ ~result.success

\* C13: when the download of a remote document failed, the wrapper method
\* returns success=false with a non-empty error, and no backend was given
\* the document.
C13_FetchFailureFails ==
    (Returned /\ loc.fetch = "failed") =>
        /\ ~result.success
        /\ "error" \in result.keys
        /\ result.error # ""
        /\ \A i \in 1..Len(invoked) :
               invoked[i] \notin {"docling", "deepdoctection", "pdfplumber", "pypdf"}

\* The target of the request is a local path and no file exists there.
LocalMissing ==
    /\ argv.json = "dict"
    /\ wrapper # "crawl4ai"
    /\ argv.config.document_url \in LocalRefs
    /\ argv.config.document_url \notin env.disk
    /\ wrapper = "docling" => Falsy(Get(argv.config.document_data, None))

\* C14: for a local path to a file that does not exist, the wrapper method
\* returns success=false with a non-empty error and an empty list of
\* backends used.
C14_MissingFileFails ==
    (Returned /\ LocalMissing) =>
        /\ ~result.success
        /\ "error" \in result.keys
        /\ result.error # ""
        /\ result.libraries_used = <<>>

\* The request carries inline document_data that base64.b64decode rejects.
UndecodableData ==
    /\ wrapper = "docling"
    /\ argv.json = "dict"
    /\ ~Falsy(Get(argv.config.document_data, None))
    /\ ~B64Decode(argv.config.document_data).ok

\* C15: inline document_data that cannot be decoded is never written out for
\* the converter, and process_document returns success=false with an error.
C15_UndecodableDataFails ==
    UndecodableData =>
        /\ pc # "docling_result"
        /\ created = {}
        /\ Returned => (~result.success /\ "error" \in result.keys /\ result.error # "")

\* C16: module load never raises: whatever exception an optional import
\* raises, its capability is recorded as unavailable and the process goes
\* on to main() and prints its JSON result.
C16_ProbingNeverRaises ==
    /\ pc # "load_failed"
    /\ pc = "done" => Len(stdout) = 1

CrawlRecognized ==
    CrawlBasicParams \cup {"extraction_strategy", "chunking_strategy", "content_filter"}

\* C18: a crawl passes the backend only option names of the recognized set
\* (to arun the names _prepare_crawl_params copies, to the crawler's
\* constructor none but verbose), whatever else the configuration holds, and
\* before any backend call the wrapper itself rejects a request only for a
\* missing url or a missing backend.
C18_UnknownOptionsIgnored ==
    wrapper = "crawl4ai" =>
        /\ loc.params \subseteq CrawlRecognized
        /\ loc.kwargs \subseteq {"verbose"}
        /\ (Returned /\ ~result.success /\ "process" \notin raised /\ loc.aruns = 0) =>
               result \in {CrawlNotAvailable, Failure("URL is required")}

\* The top-level fields of the result DeepDoctectionWrapper._build_result
\* builds.
UnifiedFields == {"success", "document", "metadata", "tables", "figures", "pages"}

\* C19: every success=true result of the document wrappers has one and the
\* same set of top-level fields; _build_result's result being one of them,
\* every other has exactly its fields.
C19_SuccessFieldsUniform ==
    (Returned /\ wrapper # "crawl4ai" /\ result.success) =>
        result.keys = UnifiedFields

DoclingMetaFields ==
    {"title", "author", "created_date", "page_count", "word_count",
     "document_type", "language"}

\* C21: in a normalized result every field is present and none is null,
\* whatever the backend's output lacked: no top-level field of a processed
\* crawl is None, and the metadata of a processed Docling document has
\* every metadata field.
C21_AbsentFieldsGetDefaults ==
    /\ (Returned /\ wrapper = "crawl4ai" /\ "url" \in result.keys) =>
           result.nulls = {}
    /\ (Returned /\ wrapper = "docling" /\ result.success /\ ~result.mock) =>
           DoclingMetaFields \subseteq result.metaKeys

C23_JsonBeforeErrorExit ==
    [][pc = "handler" =>
          /\ exitCode = -1
          /\ stdout = <<>>
          /\ exitCode' = 1 => stdout' = <<MainErrorResult(exc)>>]_vars

C23_Witness ==
    /\ pc = "done"
    /\ exitCode = 1
    /\ "parse" \in raised
    /\ stdout = <<FailureTb("Expecting value: line 1 column 1 (char 0)")>>

\* C24: for a PDF URL that was fetched, with empty options, analyze_document
\* returns a result of format pdf, with tables only if the pdfplumber
\* attempt succeeded, and with a non-empty list of libraries used, whatever
\* LIBRARIES_STATUS holds.
C24_PdfUrlResult ==
    (/\ Returned
     /\ wrapper = "deepdoctection_v2"
     /\ argv.config.document_url = "http://h/a.pdf"
     /\ argv.config.options = NoOptions
     /\ loc.fetch = "ok") =>
        /\ result.format = "pdf"
        /\ result.tables > 0 =>
               \E i \in 1..Len(loc.attempts) :
                   loc.attempts[i] = Attempt("pdfplumber", "ok")
        /\ Len(result.libraries_used) > 0

\* C25: a reference without a type signal (no document_type hint and none of
\* the suffixes .pdf, .png, .jpg, .jpeg, .tiff), URL or local path, is
\* never processed as a PDF: no document wrapper gives it a result of
\* format pdf, and the v2 cascade of PDF extractors is not entered for it.
C25_NoSignalIsGeneric ==
    LET ref == argv.config.document_url
        signal(r) == \E x \in {".pdf", ".png", ".jpg", ".jpeg", ".tiff"} :
                         EndsWith(Lower(r), x)
    IN  (/\ wrapper \in {"deepdoctection_v2", "deepdoctection", "docling"}
         /\ argv.json = "dict"
         /\ ref \in HttpRefs \cup LocalRefs
         /\ ~signal(ref)
         /\ argv.config.options.document_type = Absent) =>
            /\ pc # "v2_pdf"
            /\ (Returned /\ result.success) => result.format # "pdf"

\* Whether the i-th call of the invocation log ran inside a
\* `with redirect_stdout(io.StringIO())` block.  In crawl the block holds
\* arun, the retried arun and close, but not the constructor, which is the
\* first call; the two DeepDoctection wrappers wrap the deepdoctection calls
\* only; the Docling wrapper has no such block.
Redirected(w, i) ==
    CASE w = "crawl4ai" -> invoked[i] = "crawl4ai" /\ i > 1
      [] w = "deepdoctection" -> invoked[i] = "deepdoctection"
      [] w = "deepdoctection_v2" -> invoked[i] = "deepdoctection"
      [] OTHER -> FALSE

\* C26: every call of a backend (the crawler, pdfplumber, pypdf,
\* deepdoctection, docling) runs with stdout redirected, so that nothing a
\* backend prints reaches the process's stdout.
C26_BackendOutputSuppressed ==
    \A i \in 1..Len(invoked) :
        invoked[i] \in {"crawl4ai", "pdfplumber", "pypdf", "deepdoctection", "docling"}
            => Redirected(wrapper, i)

\* C27: _process_pdf takes up its candidates in the order pdfplumber, pypdf,
\* deepdoctection, each exactly once (run or skipped) and one at a time: the
\* k-th attempt of the log is the k-th candidate, an attempt is made only at
\* its own position of the method, and the calls made are in that order.
C27_CascadeInOrder ==
    wrapper = "deepdoctection_v2" =>
        LET order == <<"pdfplumber", "pypdf", "deepdoctection">>
            done == Len(loc.attempts)
            calls == SelectSeq(invoked, LAMBDA b : b \in {"pdfplumber", "pypdf", "deepdoctection"})
        IN  /\ done <= 3
            /\ \A k \in 1..done : loc.attempts[k].backend = order[k]
            /\ pc = "v2_pdf" => done = 0
            /\ pc = "v2_pypdf" => done = 1
            /\ pc = "v2_dd" => done = 2
            /\ calls = SelectSeq(order, LAMBDA b :
                          \E k \in 1..done :
                              /\ loc.attempts[k].backend = b
                              /\ loc.attempts[k].outcome # "skipped")

C27_Witness ==
    /\ wrapper = "deepdoctection_v2"
    /\ pc = "v2_cleanup"
    /\ loc.attempts = <<Attempt("pdfplumber", "failed"), Attempt("pypdf", "ok"),
                        Attempt("deepdoctection", "failed")>>
    /\ invoked = <<"pdfplumber", "pypdf", "deepdoctection">>

\* C28: a file the caller supplied as a local document_url, under /tmp/ or
\* elsewhere, is still on the disk at every point of the invocation of the
\* two DeepDoctection wrappers.
C28_CallerFilesKept ==
    (/\ wrapper \in {"deepdoctection", "deepdoctection_v2"}
     /\ argv.json = "dict"
     /\ argv.config.document_url \in LocalRefs \cap env.disk) =>
        argv.config.document_url \in files

\* C29: when crawl returns, a crawler it has created has been closed,
\* whichever way crawl ended.
C29_CrawlerClosedOnReturn ==
    (Returned /\ wrapper = "crawl4ai" /\ loc.crawler # "none") =>
        loc.crawler = "closed"

\* C30: in analyze_document a document whose path ends in .png, .jpg or
\* .jpeg never reaches the generic text path, and its successful result has
\* document.format = image.
C30_ImagesGoToImagePath ==
    (/\ wrapper = "deepdoctection_v2"
     /\ pc \notin {"load", "main", "v2_init", "v2_analyze"}
     /\ \E x \in {".png", ".jpg", ".jpeg"} : EndsWith(Lower(loc.path), x)) =>
        /\ pc # "v2_generic"
        /\ (Returned /\ result.success) => result.format = "image"

\* C31: in _process_pdf, when the pdfplumber attempt raised, after however
\* many pages, and pypdf is available, the pypdf attempt is made.
C31_FailedPdfplumberFallsBack ==
    (/\ wrapper = "deepdoctection_v2"
     /\ Len(loc.attempts) >= 2
     /\ loc.attempts[1] = Attempt("pdfplumber", "failed")
     /\ flags["pypdf"]) =>
        loc.attempts[2].outcome # "skipped"

\* C32: in process_document a page whose extraction raised keeps its own
\* record, with the error on it; the result has one record per analyzed
\* page, in page order, and no other page's record carries an error.
C32_PageFailureContained ==
    (Returned /\ wrapper = "deepdoctection" /\ result.success /\ ~result.mock) =>
        /\ result.pages = loc.pages
        /\ Len(result.page_records) = loc.pages
        /\ \A k \in 1..loc.pages :
               /\ result.page_records[k].page_number = k
               /\ result.page_records[k].error <=> k \in loc.bad

C32_Witness ==
    /\ Returned
    /\ wrapper = "deepdoctection"
    /\ result.success
    /\ loc.pages = 2
    /\ loc.bad = {1}
    /\ result.page_records[2] = [page_number |-> 2, error |-> FALSE]

\* C33: process_document fetches document_url only when document_data is
\* absent or empty; when both are supplied the bytes processed are those of
\* document_data and no fetch is made.
C33_InlineDataFirst ==
    (wrapper = "docling" /\ argv.json = "dict") =>
        LET document_data == Get(argv.config.document_data, None)
        IN  /\ (pc = "docling_url" \/ \E i \in 1..Len(invoked) : invoked[i] = "urllib")
                   => Falsy(document_data)
            /\ (pc \in {"docling_bytes", "docling_result"} /\ ~Falsy(document_data))
                   => loc.data = DoclingDocumentBytes(document_data)

C33_Witness ==
    /\ wrapper = "docling"
    /\ pc = "docling_result"
    /\ argv.config.document_data = "JVBERi0xLjQ="
    /\ argv.config.document_url = "http://h/a.pdf"
    /\ invoked = <<"docling", "docling">>
    /\ loc.data = Utf8Encode("%PDF-1.4")

\* C34: a result whose document text is made up by the wrapper (the Docling
\* placeholder, the DeepDoctection default fallback) has the key mock, set
\* to true, when it is returned and when it is printed.
C34_FabricatedIsMock ==
    LET fabricated(r) == StartsWith(r.text, "Mock ")
        flagged(r) == r.mock /\ "mock" \in r.keys
    IN  /\ (Returned /\ fabricated(result)) => flagged(result)
        /\ (pc = "done" /\ fabricated(Printed)) => flagged(Printed)

C34_Witness ==
    /\ pc = "done"
    /\ wrapper = "docling"
    /\ Printed.text = "Mock Docling extracted content (processing failed)"
    /\ Printed.mock
    /\ Printed.success

\* C35: for every list of page records, the result of _build_result has
\* document.pages = metadata.page_count = the number of records,
\* table_count and figure_count equal to the lengths of tables and figures,
\* and tables and figures hold exactly the pages' items, page after page and
\* in each page's own order.
C35_BuildResultCounts ==
    pc = "print" =>
        LET ar == loc.analysis_results
            inOrder(list, key) ==
                /\ \A i \in 1..Len(list) :
                       /\ list[i][1] \in 1..Len(ar)
                       /\ list[i][2] \in 1..Len(ar[list[i][1]][key])
                /\ \A k \in 1..Len(ar) : \A j \in 1..Len(ar[k][key]) :
                       \E i \in 1..Len(list) : list[i] = <<k, j>>
                /\ \A i, j \in 1..Len(list) :
                       i < j => \/ list[i][1] < list[j][1]
                                \/ list[i][1] = list[j][1] /\ list[i][2] < list[j][2]
        IN  /\ result.pages = Len(ar)
            /\ result.page_count = Len(ar)
            /\ result.table_count = Len(result.tables)
            /\ result.figure_count = Len(result.figures)
            /\ inOrder(result.tables, "tables")
            /\ inOrder(result.figures, "figures")

C35_Witness ==
    /\ pc = "print"
    /\ Len(loc.analysis_results) = 2
    /\ result.tables = <<<<1, 1>>, <<1, 2>>, <<2, 1>>>>
    /\ result.figures = <<<<2, 1>>>>
    /\ result.table_count = 3
    /\ result.page_count = 2

\* C36: once the module is loaded, a sub-feature flag is true only if the
\* flag of its backend is: the crawl4ai strategies, chunking and filters,
\* the advanced features of deepdoctection, the pipeline options of docling.
C36_SubFeatureNeedsCore ==
    pc \notin {"load", "load_failed"} =>
        /\ wrapper = "crawl4ai" =>
               \A x \in CrawlSubFeatures : flags[x] => flags["crawl4ai"]
        /\ wrapper = "deepdoctection" =>
               (flags["advanced_features"] => flags["deepdoctection"])
        /\ wrapper = "docling" =>
               (flags["pipeline_options"] => flags["docling"])

C36_Witness ==
    /\ wrapper = "crawl4ai"
    /\ pc = "crawl_arun"
    /\ flags["crawl4ai"]
    /\ ~flags["extraction_strategies"]
    /\ flags["regex_chunking"]
    /\ ~flags["content_filters"]

\* C37: main() ends with a non-zero status exactly when an exception
\* reached its handler; a success=false result that the wrapper returned,
\* or that stands for the missing argument, is printed and the status is 0.
C37_NonZeroIffHandler ==
    pc = "done" =>
        /\ exitCode \in {0, 1}
        /\ exitCode = 1 <=> exc # NoExc
        /\ exc = NoExc => Printed = result

C37_Witness ==
    /\ pc = "done"
    /\ argv.present
    /\ exc = NoExc
    /\ exitCode = 0
    /\ ~Printed.success
    /\ "traceback" \in Printed.keys

\* C38: the text of the minimal fallbacks is bounded for every input size:
\* at most 1000 characters in the HTML fallback of _get_fallback_result and
\* at most 10000 characters in _process_generic.
C38_FallbackTextBounded ==
    /\ (Returned /\ wrapper = "deepdoctection" /\ result.format = "html" /\ result.mock) =>
           Len(result.text) <= 1000
    /\ (wrapper = "deepdoctection_v2" /\ loc.res.success /\ loc.res.format = "text") =>
           Len(loc.res.text) <= 10000
    /\ (Returned /\ wrapper = "deepdoctection_v2" /\ result.success /\ result.format = "text") =>
           Len(result.text) <= 10000

C38_Witness ==
    /\ Returned
    /\ wrapper = "deepdoctection"
    /\ result.format = "html"
    /\ result.mock
    /\ result.text = Fill(1000)
    /\ "requests" \in {invoked[i] : i \in 1..Len(invoked)}

====
